---- MODULE Spec2Model ----
(***************************************************************************)
(* ReCharge Alaska viewer (app.py): the database reads and their           *)
(* memoization, the script run with its session state and export tab, the  *)
(* session summary, the connectivity durations and the time conversions    *)
(* of the export.                                                           *)
(*                                                                         *)
(* Data conventions                                                        *)
(*   - a stored timestamp is a text; `timestamp` is its position in the    *)
(*     database's ordering of texts (the order the SQL comparisons and     *)
(*     ORDER BY use) and `ts_ok` tells whether pandas can parse it; when   *)
(*     it parses, the instant (seconds, UTC) is that same number;          *)
(*   - None / NaN of an object column is Null, NaN / NaT of a numeric or   *)
(*     datetime column is NaN;                                             *)
(*   - a frame is [cols, rows]: pd.DataFrame() has no columns.             *)
(***************************************************************************)
EXTENDS Integers, Sequences, FiniteSets, TLC

VARIABLES
  tables,      \* the database: table name -> [exists, cols, rows]
  db_up,       \* whether the database answers queries
  mtime,       \* modification time of the database file
  cache,       \* st.cache_data memo of read_range: key -> [df, mtime]
  call,        \* the last execution of read_range
  mdf,         \* the meter frame of the Charging Sessions tab
  auth_df,     \* the authorize frame of the Charging Sessions tab
  session_summary,  \* what _build_session_summary made of them
  session_state,    \* st.session_state: what outlives a script run
  run,              \* what the last script run did
  conn_df,          \* the events load_connectivity_events returned
  connectivity_view,   \* the frame the Connectivity tab shows
  status_df,        \* the frame of the Status History tab
  workbook,         \* the sheets the Data Export tab wrote
  applied           \* the last use of each helper and filter: its inputs and result

dbVars == <<tables, db_up, mtime>>
frameVars == <<mdf, auth_df, session_summary>>
uiVars == <<session_state, run>>
tabVars == <<conn_df, connectivity_view, status_df, workbook>>
\* everything but `applied`
appVars == <<tables, db_up, mtime, cache, call, mdf, auth_df, session_summary,
             session_state, run, conn_df, connectivity_view, status_df, workbook>>
vars == <<tables, db_up, mtime, cache, call, mdf, auth_df, session_summary,
          session_state, run, conn_df, connectivity_view, status_df, workbook, applied>>

\* None / NaN of an object column
Null == "<null>"
\* NaN / NaT of a numeric or datetime column (the instants of the model are >= 0)
NaN == -1
NaT == NaN

\* ---------------------------------------------------------------- bounds
MaxRows == 2
MaxMtime == 3
MaxCached == 2
MaxAuthRows == 2
MaxEvents == 3

\* ---------------------------------------------------------------- helpers
Range(s) == {s[i] : i \in 1..Len(s)}

\* Python truthiness of an optional string (None and "" are falsy)
Truthy(x) == x # Null /\ x # ""

\* stable ascending sort of the sequence s by the integer keys key[i] of its rows
StableSort(s, key) ==
  LET n == Len(s)
      rank(i) == Cardinality({j \in 1..n : \/ key[j] < key[i]
                                           \/ key[j] = key[i] /\ j < i}) + 1
  IN [k \in 1..n |-> s[CHOOSE i \in 1..n : rank(i) = k]]

\* Series.astype(str) on a station id: an integer id ("int:7") reads "7", a
\* missing one "nan"
AsStr(v) ==
  CASE v = Null -> "nan"
    [] v = "int:7" -> "7"
    [] OTHER -> v

\* pd.DataFrame(): no columns, no rows
EmptyFrame == [cols |-> {}, rows |-> <<>>]

NotBuilt == [state |-> "none", rows |-> <<>>]

\* st.session_state of a new browser session: no export keys yet
NoContext == [start |-> 0, end |-> 0, evse_ids |-> {}, db_mtime |-> 0]
NoSessionState ==
  [has_auth_df_display |-> FALSE, auth_df_display |-> EmptyFrame,
   has_export |-> FALSE, export_session_summary |-> <<>>, export_context |-> NoContext]

NoRun ==
  [start |-> 0, end |-> 0, evse_ids |-> {}, at_mtime |-> 0, status |-> "none",
   read |-> FALSE, hit |-> FALSE, memo_mtime |-> 0,
   df_defined |-> FALSE, summary |-> "undefined", summary_rows |-> <<>>,
   sheet_summary |-> <<>>, sheet_context |-> NoContext]

\* no filter or helper used yet
NoEvseFilter == [selected_evse_ids |-> {}, site |-> "none", df |-> EmptyFrame,
                 used |-> <<>>, state |-> "none"]
NoSorted == [table |-> "none", aggrid |-> FALSE, before |-> <<>>, after |-> <<>>]
NoRange == [by |-> "none", today |-> 0, start_date |-> 0, start_hour |-> 0,
            end_date |-> 0, end_hour |-> 0, state |-> "none", s |-> 0, e |-> 0]
NoEngine == [environ |-> [RENDER_DB_URL |-> Null, DATABASE_URL |-> Null],
             called |-> FALSE, db_path |-> Null, result |-> [state |-> "none", dialect |-> Null, target |-> Null]]
NoErrorCodes ==
  [table |-> [exists |-> FALSE, rows |-> {}],
   uploaded |-> [RT50 |-> [state |-> "absent", rows |-> <<>>],
                 RTM |-> [state |-> "absent", rows |-> <<>>]],
   calls |-> "none", again |-> FALSE]
NoHvb == [called |-> FALSE, df |-> EmptyFrame, out |-> EmptyFrame]
NoStats == [called |-> FALSE, samples |-> <<>>, energy_kwh |-> NaN, max_power_kw |-> NaN]
NoNames == [ASSET_NAME_MAP |-> <<>>, called |-> FALSE, sid |-> "", result |-> ""]
NotApplied == [evse_filter |-> NoEvseFilter, sorted |-> NoSorted, range |-> NoRange,
               engine |-> NoEngine, error_codes |-> NoErrorCodes,
               hvb |-> NoHvb, stats |-> NoStats, names |-> NoNames]

NoWorkbook == [built |-> FALSE, Summary |-> <<>>, Status |-> <<>>, Connectivity |-> <<>>]

\* ---------------------------------------------------------------- database
AbsentTable == [exists |-> FALSE, cols |-> {}, rows |-> <<>>]

\* _db_mtime: the file's st_mtime
DbMtime == mtime

\* ---------------------------------------------------------------- read_range
QueryFails(tbls, up, table, evse_id) ==
  \/ ~up
  \/ ~tbls[table].exists
  \/ "timestamp" \notin tbls[table].cols
  \/ Truthy(evse_id) /\ "station_id" \notin tbls[table].cols

\* the WHERE clause built by read_range
Where_noEndBound(r, start_iso, end_iso, evse_id) ==
  /\ r.timestamp >= start_iso
  /\ Truthy(evse_id) => r.station_id = evse_id

Where(r, start_iso, end_iso, evse_id) ==
  /\ r.timestamp >= start_iso /\ r.timestamp <= end_iso
  /\ Truthy(evse_id) => r.station_id = evse_id

ReadRange(tbls, up, table, start_iso, end_iso, evse_id) ==
  IF QueryFails(tbls, up, table, evse_id)
  THEN EmptyFrame
  ELSE LET sel == SelectSeq(tbls[table].rows,
                            LAMBDA r : Where(r, start_iso, end_iso, evse_id))
       IN [cols |-> tbls[table].cols,
           rows |-> StableSort(sel, [i \in 1..Len(sel) |-> sel[i].timestamp])]

\* st.cache_data hashes the arguments whose names do not begin with an
\* underscore: db_file, table, start_iso, end_iso, evse_id, and not _mtime
CacheKey(table, start_iso, end_iso, evse_id, m) ==
  <<table, start_iso, end_iso, evse_id>>

\* ---------------------------------------------------------------- add_akdt
\* ts_utc of a row: the parsed instant (seconds), NaT when no pass parses the text
TsUtc(r) == IF r.ts_ok THEN r.timestamp ELSE NaT

\* add_akdt: adds ts_utc (and AKDT_dt, the same instant shown in Alaska time)
AddAkdt(rows) ==
  [i \in 1..Len(rows) |-> [ts_utc |-> TsUtc(rows[i])] @@ rows[i]]

\* ---------------------------------------------------------------- transaction identifiers
BlankTxnStrings == {"", "None", "none", "NaN", "nan", "NULL", "null"}

\* astype(str).str.strip() on the identifier values of the model
StrStrip(v) ==
  CASE v = Null -> "None"
    [] v = " T1" -> "T1"
    [] OTHER -> v

\* lines 1049-1051: blanks and odd strings of transaction_id become NaN

NormalizeTxn(v) ==
  IF StrStrip(v) \in BlankTxnStrings THEN Null ELSE StrStrip(v)

\* the frame's identifier column, by preference
TxnColOf(cols) ==
  CASE "transaction_id" \in cols -> "transaction_id"
    [] "session_id" \in cols -> "session_id"
    [] "session" \in cols -> "session"
    [] OTHER -> Null

\* the meter frame handed to _build_session_summary: only a column named
\* transaction_id is normalized
NormalizeKeys(df) ==
  IF "transaction_id" \in df.cols
  THEN [df EXCEPT !.rows = [i \in 1..Len(df.rows) |->
                              [df.rows[i] EXCEPT !.txn = NormalizeTxn(@)]]]
  ELSE df

\* position of an identifier in the ascending order of the group keys
KeyRank(k) ==
  CASE k = "" -> 0
    [] k = " T1" -> 1
    [] k = "None" -> 2
    [] k = "T1" -> 3
    [] k = "T2" -> 4
    [] k = "nan" -> 5
    [] OTHER -> 6

\* ---------------------------------------------------------------- _build_session_summary
SeqMin(S) == CHOOSE x \in S : \A y \in S : x <= y
SeqMax(S) == CHOOSE x \in S : \A y \in S : x >= y

\* groupby(txn_col, sort=True): NaN keys are dropped, keys ascend
GroupKeys(rows) ==
  LET ks == {rows[i].txn : i \in 1..Len(rows)} \ {Null}
      n == Cardinality(ks)
  IN [p \in 1..n |-> CHOOSE k \in ks :
                        Cardinality({j \in ks : KeyRank(j) < KeyRank(k)}) = p - 1]

\* the rows of one transaction, in the order of sort_values([txn_col, "timestamp"])
GroupRows(rows, k) ==
  LET sel == SelectSeq(rows, LAMBDA r : r.txn = k)
  IN StableSort(sel, [i \in 1..Len(sel) |-> sel[i].timestamp])

\* g["ts_utc"].min() / .max(): NaT rows are skipped, NaT when none parses
\* (the raw-string fallback parses the same texts and stays NaT)
FirstAnyUtc_lastSample(g) ==
  LET ok == {g[i].ts_utc : i \in 1..Len(g)} \ {NaT}
  IN IF ok = {} THEN NaT ELSE SeqMax(ok)

FirstAnyUtc(g) ==
  LET ok == {g[i].ts_utc : i \in 1..Len(g)} \ {NaT}
  IN IF ok = {} THEN NaT ELSE SeqMin(ok)

LastUtc(g) ==
  LET ok == {g[i].ts_utc : i \in 1..Len(g)} \ {NaT}
  IN IF ok = {} THEN NaT ELSE SeqMax(ok)

\* connector_num: the smallest of the most frequent connector ids
ConnectorMode(g) ==
  LET cs == {g[i].connector_id : i \in 1..Len(g)} \ {NaN}
      freq(c) == Cardinality({i \in 1..Len(g) : g[i].connector_id = c})
      top == {c \in cs : \A d \in cs : freq(d) <= freq(c)}
  IN IF cs = {} THEN NaN ELSE SeqMin(top)

\* ((last_dt - first_dt).dt.total_seconds() / 60.0).round(2), in hundredths of
\* a minute: secs * 100 / 60 rounded to the nearest integer
DurationMin(first, last) ==
  IF first = NaT \/ last = NaT THEN NaN
  ELSE (10 * (last - first) + 3) \div 6

\* ---------------------------------------------------------------- VID matching
Tol60s == 60
Tol5min == 300
Tol30min == 1800

\* vid_norm of an authorize row: the VID column, overridden by an id_tag of the
\* form VID:<hex>, normalized to the prefix 'VID:' (_normalize_vid_string)
VidNorm(a) ==
  CASE a.id_tag = "VID:B2" -> "VID:B2"
    [] a.VID = Null -> ""
    [] a.VID = "" -> ""
    [] a.VID = "A1" -> "VID:A1"
    [] a.VID = "vid:C3" -> "VID:C3"
    [] OTHER -> ""

\* the authorize rows that carry a VID, sorted by ts_utc (NaT last)
VidCandidates(auth_rows) ==
  LET a == AddAkdt(auth_rows)
      ok == SelectSeq(a, LAMBDA r : VidNorm(r) # "" /\ r.ts_utc # NaT)
      nat == SelectSeq(a, LAMBDA r : VidNorm(r) # "" /\ r.ts_utc = NaT)
  IN StableSort(ok, [i \in 1..Len(ok) |-> ok[i].ts_utc]) \o nat

\* pd.merge_asof(direction="backward", tolerance=tol) for one left row: the
\* last candidate of the same by-group at or before start_utc, if within tol
AsofMatch_anyStation(cand, start_utc, station, connector, by_connector, tol) ==
  LET S == {i \in 1..Len(cand) :
              /\ by_connector => cand[i].connector_id = connector
              /\ cand[i].ts_utc <= start_utc}
      i == SeqMax(S)
  IN IF S = {} THEN Null
     ELSE IF start_utc - cand[i].ts_utc <= tol THEN VidNorm(cand[i]) ELSE Null

AsofMatch(cand, start_utc, station, connector, by_connector, tol) ==
  LET S == {i \in 1..Len(cand) :
              /\ cand[i].station_id = station
              /\ by_connector => cand[i].connector_id = connector
              /\ cand[i].ts_utc <= start_utc}
      i == SeqMax(S)
  IN IF S = {} THEN Null
     ELSE IF start_utc - cand[i].ts_utc <= tol THEN VidNorm(cand[i]) ELSE Null

\* res / res2 / res3: same connector within 60 s, then 5 min (station only when
\* the authorize frame has no connector_id), then station only within 30 min
VidFor(cand, has_connector, start_utc, station, connector) ==
  LET p1 == AsofMatch(cand, start_utc, station, connector, has_connector, Tol60s)
      p2 == AsofMatch(cand, start_utc, station, connector, has_connector, Tol5min)
      p3 == AsofMatch(cand, start_utc, station, connector, FALSE, Tol30min)
      v == IF p1 # Null THEN p1 ELSE IF p2 # Null THEN p2 ELSE p3
  IN IF v = Null THEN "" ELSE v

\* merge_asof refuses null merge keys on either side (ValueError)
AsofRaises(starts, cand) ==
  \/ \E i \in 1..Len(starts) : starts[i] = NaT
  \/ \E i \in 1..Len(cand) : cand[i].ts_utc = NaT

\* session_summary.sort_values("_start", ascending=False, kind="mergesort"):
\* newest first, NaT last, ties in their previous order
SortNewestFirst(rows) ==
  StableSort(rows, [i \in 1..Len(rows) |->
                     IF rows[i].start = NaT THEN 1 ELSE 0 - rows[i].start])

\* _build_session_summary(mdf) with the module-level auth_df, followed by the
\* newest-first ordering of lines 1314-1324
BuildSessionSummary(df, auth) ==
  LET txn_col == TxnColOf(df.cols)
      work == AddAkdt(df.rows)
      keys == GroupKeys(work)
      g(k) == GroupRows(work, k)
      starts == [p \in 1..Len(keys) |-> FirstAnyUtc(g(keys[p]))]
      cand == VidCandidates(auth.rows)
      matching == auth.rows # <<>> /\ cand # <<>>
      has_connector == "connector_id" \in auth.cols
      row(p) ==
        LET grp == g(keys[p])
            first == starts[p]
            last == LastUtc(grp)
        IN [transaction_id |-> keys[p],
            station_id |-> grp[1].station_id,
            connector |-> ConnectorMode(grp),
            start |-> first,
            end |-> last,
            duration_min |-> DurationMin(first, last),
            id_tag |-> IF matching
                       THEN VidFor(cand, has_connector, first, grp[1].station_id,
                                   ConnectorMode(grp))
                       ELSE ""]
  IN IF txn_col = Null THEN [state |-> "built", rows |-> <<>>]
     ELSE IF matching /\ AsofRaises(starts, cand)
          THEN [state |-> "raised", rows |-> <<>>]
          ELSE [state |-> "built",
                rows |-> SortNewestFirst([p \in 1..Len(keys) |-> row(p)])]

\* ---------------------------------------------------------------- the database's writers
\* every write to the database file moves its modification time forward
CreateTable(t, cols) ==
  /\ mtime < MaxMtime
  /\ ~tables[t].exists
  /\ tables' = [tables EXCEPT ![t] = [exists |-> TRUE, cols |-> cols, rows |-> <<>>]]
  /\ mtime' = mtime + 1

DropTable(t) ==
  /\ mtime < MaxMtime
  /\ tables[t].exists
  /\ tables' = [tables EXCEPT ![t] = AbsentTable]
  /\ mtime' = mtime + 1

InsertRow(t, r) ==
  /\ mtime < MaxMtime
  /\ tables[t].exists
  /\ Len(tables[t].rows) < MaxRows
  /\ tables' = [tables EXCEPT ![t].rows = Append(@, r)]
  /\ mtime' = mtime + 1

\* ---------------------------------------------------------------- SpecRead: read_range and its memo
ReadTable == "meter_values"
ReadStations == {"S1", "S2"}
ReadTimes == {10, 20, 30}
ReadRows == [station_id : ReadStations, timestamp : ReadTimes]
ReadCols == {{"timestamp", "station_id"}, {"timestamp"}, {"station_id"}}
ReadEvse == {Null, "", "S1"}

NoCall == [table |-> Null, start |-> 0, end |-> 0, evse_id |-> Null,
           df |-> EmptyFrame, query_failed |-> FALSE, at_mtime |-> 0]

InitRead ==
  /\ tables = [t \in {ReadTable} |-> AbsentTable]
  /\ db_up = TRUE
  /\ mtime = 0
  /\ cache = <<>>
  /\ call = NoCall
  /\ mdf = EmptyFrame
  /\ auth_df = EmptyFrame
  /\ session_summary = NotBuilt
  /\ session_state = NoSessionState
  /\ run = NoRun
  /\ conn_df = <<>>
  /\ connectivity_view = NotBuilt
  /\ status_df = <<>>
  /\ workbook = NoWorkbook
  /\ applied = NotApplied

ReadCreate ==
  \E cols \in ReadCols :
    CreateTable(ReadTable, cols) /\ UNCHANGED <<db_up, cache, call, uiVars, tabVars, frameVars, applied>>
ReadDrop == DropTable(ReadTable) /\ UNCHANGED <<db_up, cache, call, uiVars, tabVars, frameVars, applied>>
ReadInsert ==
  \E r \in ReadRows :
    InsertRow(ReadTable, r) /\ UNCHANGED <<db_up, cache, call, uiVars, tabVars, frameVars, applied>>
ReadOutage == db_up' = ~db_up /\ UNCHANGED <<tables, mtime, cache, call, uiVars, tabVars, frameVars, applied>>
\* one execution of read_range's body
ReadCall ==
  \E s \in ReadTimes, e \in ReadTimes, ev \in ReadEvse :
    /\ call' = [table |-> ReadTable, start |-> s, end |-> e, evse_id |-> ev,
                df |-> ReadRange(tables, db_up, ReadTable, s, e, ev),
                query_failed |-> QueryFails(tables, db_up, ReadTable, ev),
                at_mtime |-> DbMtime]
    /\ UNCHANGED <<tables, db_up, mtime, cache, frameVars, uiVars, tabVars, applied>>

NextRead == ReadCreate \/ ReadDrop \/ ReadInsert \/ ReadOutage \/ ReadCall

SpecRead == InitRead /\ [][NextRead]_vars

\* ---------------------------------------------------------------- SpecSummary: the session summary of a meter frame
\* The frames arrive from read_range, so their rows ascend by timestamp.
SumTxns == {Null, "", "nan", "T1", " T1", "T2"}
SumStamps == {<<100, TRUE>>, <<101, TRUE>>, <<150, FALSE>>, <<200, TRUE>>}
SumRows ==
  {[station_id |-> st, connector_id |-> 1, txn |-> t, timestamp |-> ts[1], ts_ok |-> ts[2]] :
     st \in {"S1", "S2"}, t \in SumTxns, ts \in SumStamps}
SumCols ==
  {{"timestamp", "station_id", "connector_id", c} : c \in {"transaction_id", "session_id"}}
    \cup {{"timestamp", "station_id", "connector_id"}}

InitSummary ==
  /\ tables = [t \in {ReadTable} |-> AbsentTable]
  /\ db_up = TRUE
  /\ mtime = 0
  /\ cache = <<>>
  /\ call = NoCall
  /\ \E cols \in SumCols : mdf = [cols |-> cols, rows |-> <<>>]
  /\ auth_df = EmptyFrame
  /\ session_summary = NotBuilt
  /\ session_state = NoSessionState
  /\ run = NoRun
  /\ conn_df = <<>>
  /\ connectivity_view = NotBuilt
  /\ status_df = <<>>
  /\ workbook = NoWorkbook
  /\ applied = NotApplied

\* one more row of the window's meter data, in timestamp order
AppendMeterRow(r) ==
  /\ session_summary.state = "none"
  /\ Len(mdf.rows) < MaxRows
  /\ mdf.rows # <<>> => mdf.rows[Len(mdf.rows)].timestamp <= r.timestamp
  /\ TxnColOf(mdf.cols) = Null => r.txn = Null
  /\ mdf' = [mdf EXCEPT !.rows = Append(@, r)]

\* lines 1049-1051 and 1306-1324 on the frame
BuildSummary ==
  /\ session_summary.state = "none"
  /\ mdf.rows # <<>>
  /\ session_summary' = BuildSessionSummary(NormalizeKeys(mdf), auth_df)

SumAppend ==
  \E r \in SumRows :
    AppendMeterRow(r) /\ UNCHANGED <<dbVars, cache, call, uiVars, tabVars, auth_df, session_summary, applied>>
SumBuild == BuildSummary /\ UNCHANGED <<dbVars, cache, call, uiVars, tabVars, mdf, auth_df, applied>>

NextSummary == SumAppend \/ SumBuild

SpecSummary == InitSummary /\ [][NextSummary]_vars

\* ---------------------------------------------------------------- SpecAsof: the ID Tag of a session
AsofMeterCols == {"timestamp", "station_id", "connector_id", "transaction_id"}
AsofMeterRows ==
  {[station_id |-> "S1", connector_id |-> 1, txn |-> "T1", timestamp |-> 2000, ts_ok |-> TRUE],
   [station_id |-> "S2", connector_id |-> 1, txn |-> "T2", timestamp |-> 2030, ts_ok |-> TRUE],
   [station_id |-> "S1", connector_id |-> 1, txn |-> "T1", timestamp |-> 1990, ts_ok |-> FALSE],
   [station_id |-> "S2", connector_id |-> 2, txn |-> "T1", timestamp |-> 2000, ts_ok |-> TRUE]}

\* (timestamp, parses, VID, id_tag) of the authorize rows: 1801 s, 1800 s,
\* 200 s and 50 s before the start at 2000, 1 s after it, and a text that
\* does not parse; a second VID and a row without one at 1950
AsofAuthStamps ==
  {<<199, TRUE, "A1", "tag9">>, <<200, TRUE, "A1", "tag9">>,
   <<1800, TRUE, "A1", "tag9">>, <<1950, TRUE, "vid:C3", "tag9">>,
   <<1950, TRUE, Null, "VID:B2">>, <<1950, TRUE, Null, "tag9">>,
   <<2001, TRUE, "A1", "tag9">>,
   <<1900, FALSE, "A1", "tag9">>, <<1900, FALSE, Null, "tag9">>}
AsofAuthRows ==
  {[station_id |-> st, connector_id |-> c, timestamp |-> a[1], ts_ok |-> a[2],
    VID |-> a[3], id_tag |-> a[4]] :
     st \in {"S1", "S2"}, c \in {1, 2}, a \in AsofAuthStamps}
AsofAuthCols ==
  {{"timestamp", "station_id", "VID", "id_tag"},
   {"timestamp", "station_id", "VID", "id_tag", "connector_id"}}

InitAsof ==
  /\ tables = [t \in {ReadTable} |-> AbsentTable]
  /\ db_up = TRUE
  /\ mtime = 0
  /\ cache = <<>>
  /\ call = NoCall
  /\ mdf = [cols |-> AsofMeterCols, rows |-> <<>>]
  /\ \E cols \in AsofAuthCols : auth_df = [cols |-> cols, rows |-> <<>>]
  /\ session_summary = NotBuilt
  /\ session_state = NoSessionState
  /\ run = NoRun
  /\ conn_df = <<>>
  /\ connectivity_view = NotBuilt
  /\ status_df = <<>>
  /\ workbook = NoWorkbook
  /\ applied = NotApplied

\* one more row of the window's authorize data, in timestamp order
AppendAuthRow(r) ==
  /\ session_summary.state = "none"
  /\ Len(auth_df.rows) < MaxAuthRows
  /\ auth_df.rows # <<>> => auth_df.rows[Len(auth_df.rows)].timestamp <= r.timestamp
  /\ auth_df' = [auth_df EXCEPT !.rows = Append(@, r)]

AsofAppendMeter ==
  \E r \in AsofMeterRows :
    AppendMeterRow(r) /\ UNCHANGED <<dbVars, cache, call, uiVars, tabVars, auth_df, session_summary, applied>>
AsofAppendAuth ==
  \E r \in AsofAuthRows :
    AppendAuthRow(r) /\ UNCHANGED <<dbVars, cache, call, uiVars, tabVars, mdf, session_summary, applied>>
AsofBuild == BuildSummary /\ UNCHANGED <<dbVars, cache, call, uiVars, tabVars, mdf, auth_df, applied>>

NextAsof == AsofAppendMeter \/ AsofAppendAuth \/ AsofBuild

SpecAsof == InitAsof /\ [][NextAsof]_vars

\* ---------------------------------------------------------------- SpecConn: the Connectivity tab
\* Series.astype(str).str.upper() on the labels load_connectivity_events gives
StrUpper(v) ==
  CASE v = "websocket CONNECT" -> "WEBSOCKET CONNECT"
    [] v = "websocket DISCONNECT" -> "WEBSOCKET DISCONNECT"
    [] OTHER -> v

\* Series.str.contains(pat): pat occurs somewhere in the text

StrContains(v, pat) ==
  CASE pat = "CONNECT" -> v \in {"WEBSOCKET CONNECT", "WEBSOCKET DISCONNECT"}
    [] pat = "DISCONNECT" -> v = "WEBSOCKET DISCONNECT"
    [] OTHER -> FALSE

StationRank(st) == IF st = "S1" THEN 1 ELSE 2
\* upper end of the instants of the model: NaT sorts after every instant
LastInstant == 1000000

\* conn_df.sort_values(["station_id", "ts_utc"], kind="mergesort")
SortByStationAndTime(rows) ==
  StableSort(rows, [i \in 1..Len(rows) |->
                     StationRank(rows[i].station_id) * (LastInstant + 1)
                       + (IF rows[i].ts_utc = NaT THEN LastInstant ELSE rows[i].ts_utc)])

\* _duration_since_prev_disconnect for row i of the sorted frame: shift(1)
\* within the station's group
DurationSincePrevDisconnect(rows, i) ==
  IF i > 1 /\ rows[i - 1].station_id = rows[i].station_id
       /\ StrContains(StrUpper(rows[i].Connectivity), "CONNECT")
       /\ StrContains(StrUpper(rows[i - 1].Connectivity), "DISCONNECT")
  THEN DurationMin(rows[i - 1].ts_utc, rows[i].ts_utc)
  ELSE NaN

\* the Connectivity tab on a non-empty conn_df: durations, then newest first
ConnectivityView(events) ==
  LET withIdx == [i \in 1..Len(events) |-> [idx |-> i] @@ events[i]]
      sorted == SortByStationAndTime(AddAkdt(withIdx))
      rows == [i \in 1..Len(sorted) |->
                 [idx |-> sorted[i].idx,
                  station_id |-> sorted[i].station_id,
                  Connectivity |-> sorted[i].Connectivity,
                  start |-> sorted[i].ts_utc,
                  Duration |-> DurationSincePrevDisconnect(sorted, i)]]
  IN [state |-> "built", rows |-> SortNewestFirst(rows)]

ConnStamps == {<<100, TRUE>>, <<160, TRUE>>, <<161, TRUE>>, <<130, FALSE>>}
ConnEvents ==
  {[station_id |-> st, Connectivity |-> c, timestamp |-> ts[1], ts_ok |-> ts[2]] :
     st \in {"S1", "S2"}, c \in {"websocket CONNECT", "websocket DISCONNECT"},
     ts \in ConnStamps}

InitConn ==
  /\ tables = [t \in {ReadTable} |-> AbsentTable]
  /\ db_up = TRUE
  /\ mtime = 0
  /\ cache = <<>>
  /\ call = NoCall
  /\ mdf = EmptyFrame
  /\ auth_df = EmptyFrame
  /\ session_summary = NotBuilt
  /\ session_state = NoSessionState
  /\ run = NoRun
  /\ conn_df = <<>>
  /\ connectivity_view = NotBuilt
  /\ status_df = <<>>
  /\ workbook = NoWorkbook
  /\ applied = NotApplied

\* one more event of the window, in the order of the query (ascending timestamp)
ConnAppend ==
  \E e \in ConnEvents :
    /\ connectivity_view.state = "none"
    /\ Len(conn_df) < MaxEvents
    /\ conn_df # <<>> => conn_df[Len(conn_df)].timestamp <= e.timestamp
    /\ conn_df' = Append(conn_df, e)
    /\ UNCHANGED <<dbVars, cache, call, frameVars, uiVars, connectivity_view, status_df, workbook, applied>>

ConnBuild ==
  /\ connectivity_view.state = "none"
  /\ conn_df # <<>>
  /\ connectivity_view' = ConnectivityView(conn_df)
  /\ UNCHANGED <<dbVars, cache, call, frameVars, uiVars, conn_df, status_df, workbook, applied>>

NextConn == ConnAppend \/ ConnBuild

SpecConn == InitConn /\ [][NextConn]_vars

\* C9 (as claimed): a Duration is present only on a CONNECT row whose
\* immediately preceding event of the same station is a DISCONNECT, and is the
\* minutes between the two (to the two decimals shown); every DISCONNECT row
\* has no Duration.
C9_DurationOnlyOnReconnect ==
  \A i \in 1..Len(connectivity_view.rows) :
    LET r == connectivity_view.rows[i]
        before(j) ==
          /\ conn_df[j].station_id = r.station_id
          /\ j # r.idx
          /\ conn_df[j].ts_ok
          /\ \/ conn_df[j].timestamp < r.start
             \/ conn_df[j].timestamp = r.start /\ j < r.idx
        prev == {j \in 1..Len(conn_df) :
                   /\ before(j)
                   /\ \A k \in 1..Len(conn_df) :
                        before(k) /\ k # j =>
                          \/ conn_df[k].timestamp < conn_df[j].timestamp
                          \/ conn_df[k].timestamp = conn_df[j].timestamp /\ k < j}
    IN r.Duration # NaN =>
         /\ r.Connectivity = "websocket CONNECT"
         /\ \E j \in prev :
              /\ conn_df[j].Connectivity = "websocket DISCONNECT"
              /\ r.Duration = DurationMin(conn_df[j].timestamp, r.start)

\* ---------------------------------------------------------------- SpecExport: the datetimes of the workbook
\* A datetime value is [tz, utc, wall]: tz is "UTC", "AK" or "naive", utc the
\* instant of a tz-aware value (NaT in a naive one), wall its wall-clock
\* reading in seconds; NaT has utc = wall = NaT.
\* America/Anchorage: UTC-8 in daylight time, UTC-9 from the instant DstEnd on
DstEnd == 100000
AkOffset(t) == IF t < DstEnd THEN 0 - 28800 ELSE 0 - 32400
UtcOffset(tz, t) == IF tz = "AK" THEN AkOffset(t) ELSE 0

\* pd.to_datetime(..., utc=True) of an instant
UtcValue(t) == [tz |-> "UTC", utc |-> t, wall |-> t]

\* Series.dt.tz_convert(tz) of a tz-aware value; tz = Null is tz_convert(None):
\* the UTC reading without the zone
TzConvert(v, tz) ==
  IF tz = Null
  THEN [tz |-> "naive", utc |-> NaT, wall |-> v.utc]
  ELSE [tz |-> tz, utc |-> v.utc,
        wall |-> IF v.utc = NaT THEN NaT ELSE v.utc + UtcOffset(tz, v.utc)]

\* Series.dt.tz_localize(tz): UTC gives a naive reading its zone, Null
\* (tz_localize(None)) drops the zone and keeps the reading
TzLocalize(v, tz) ==
  IF tz = Null THEN [tz |-> "naive", utc |-> NaT, wall |-> v.wall]
  ELSE [tz |-> tz, utc |-> v.wall, wall |-> v.wall]

\* strip_tz_for_excel on one value of a column

StripTzForExcel(v) == IF v.tz # "naive" THEN TzConvert(v, Null) ELSE v

\* to_ak_naive on one value of a column
ToAkNaive(v) ==
  LET ak == IF v.tz # "naive" THEN TzConvert(v, "AK")
            ELSE TzConvert(TzLocalize(v, "UTC"), "AK")
  IN TzLocalize(ak, Null)

\* add_akdt's AKDT_dt of an instant
AkdtDt(t) == TzConvert(UtcValue(t), "AK")

\* lines 2019-2050: the Summary sheet's two datetime columns from _start, _end
SummarySheet(summary_rows) ==
  LET sorted == SortNewestFirst(summary_rows)
  IN [i \in 1..Len(sorted) |->
        [start |-> sorted[i].start, end |-> sorted[i].end,
         date_time |-> StripTzForExcel(ToAkNaive(AkdtDt(sorted[i].start))),
         stop_time |-> StripTzForExcel(ToAkNaive(AkdtDt(sorted[i].end)))]]

\* lines 2053-2065 and 2097-2115: 'Date/Time (AKDT)' is AKDT_dt, the frame goes
\* through strip_tz_for_excel, the column is assigned from the stripped
\* AKDT_dt again and stripped again
StatusSheet(status_rows) ==
  LET sorted == SortNewestFirst(status_rows)
  IN [i \in 1..Len(sorted) |->
        LET akdt_dt == StripTzForExcel(AkdtDt(sorted[i].start))
        IN [start |-> sorted[i].start,
            date_time |-> StripTzForExcel(akdt_dt)]]

\* lines 2073-2081
ConnectivitySheet(view_rows) ==
  [i \in 1..Len(view_rows) |->
     [start |-> view_rows[i].start,
      date_time |-> ToAkNaive(AkdtDt(view_rows[i].start))]]

ExportInstants == {50000, 99000, 120000, NaT}
\* the parseable instants a session can start or end at
ExportSessionInstants == ExportInstants \ {NaT}

InitExport ==
  /\ tables = [t \in {ReadTable} |-> AbsentTable]
  /\ db_up = TRUE
  /\ mtime = 0
  /\ cache = <<>>
  /\ call = NoCall
  /\ mdf = EmptyFrame
  /\ auth_df = EmptyFrame
  /\ session_summary = NotBuilt
  /\ session_state = NoSessionState
  /\ run = NoRun
  /\ conn_df = <<>>
  /\ connectivity_view = NotBuilt
  /\ status_df = <<>>
  /\ workbook = NoWorkbook
  /\ applied = NotApplied

\* the Charging Sessions tab stored a summary with one more session
ExportAddSession ==
  \E s \in ExportSessionInstants, e \in ExportSessionInstants :
    /\ ~workbook.built
    /\ s <= e
    /\ Len(session_state.export_session_summary) < MaxRows
    /\ session_state' =
         [session_state EXCEPT
            !.has_export = TRUE,
            !.export_session_summary =
               SortNewestFirst(Append(@, [transaction_id |-> "T1", station_id |-> "S1",
                                           connector |-> 1, start |-> s, end |-> e,
                                           duration_min |-> DurationMin(s, e),
                                           id_tag |-> ""]))]
    /\ UNCHANGED <<dbVars, cache, call, frameVars, run, tabVars, applied>>

\* the Status History tab read one more status notification
ExportAddStatus ==
  \E t \in ExportInstants :
    /\ ~workbook.built
    /\ Len(status_df) < MaxRows
    /\ status_df' = SortNewestFirst(Append(status_df, [station_id |-> "S1", start |-> t]))
    /\ UNCHANGED <<dbVars, cache, call, frameVars, uiVars, conn_df, connectivity_view, workbook, applied>>

\* the Connectivity tab shows one more event
ExportAddEvent ==
  \E t \in ExportInstants :
    /\ ~workbook.built
    /\ Len(connectivity_view.rows) < MaxRows
    /\ connectivity_view' =
         [state |-> "built",
          rows |-> SortNewestFirst(Append(connectivity_view.rows,
                     [idx |-> Len(connectivity_view.rows) + 1, station_id |-> "S1",
                      Connectivity |-> "websocket CONNECT", start |-> t,
                      Duration |-> NaN]))]
    /\ UNCHANGED <<dbVars, cache, call, frameVars, uiVars, conn_df, status_df, workbook, applied>>

\* the Data Export tab, past st.stop(): the sheets of the workbook
ExportWorkbook ==
  /\ ~workbook.built
  /\ session_state.has_export
  /\ session_state.export_session_summary # <<>>
  /\ workbook' = [built |-> TRUE,
                  Summary |-> SummarySheet(session_state.export_session_summary),
                  Status |-> StatusSheet(status_df),
                  Connectivity |-> ConnectivitySheet(connectivity_view.rows)]
  /\ UNCHANGED <<dbVars, cache, call, frameVars, uiVars, conn_df, connectivity_view, status_df, applied>>

NextExport == ExportAddSession \/ ExportAddStatus \/ ExportAddEvent \/ ExportWorkbook

SpecExport == InitExport /\ [][NextExport]_vars

\* the Alaska wall-clock reading of the instant t, without a zone
AkWallClock(t) ==
  [tz |-> "naive", utc |-> NaT, wall |-> IF t = NaT THEN NaT ELSE t + AkOffset(t)]

\* C10 (as claimed): every 'Date/Time (AKDT)' and 'Stop Time (AKDT)' cell of the
\* Summary, Status and Connectivity sheets is the timezone-naive Alaska
\* wall-clock time of its instant.
C10_AlaskaWallClock ==
  /\ \A i \in 1..Len(workbook.Summary) :
       /\ workbook.Summary[i].date_time = AkWallClock(workbook.Summary[i].start)
       /\ workbook.Summary[i].stop_time = AkWallClock(workbook.Summary[i].end)
  /\ \A i \in 1..Len(workbook.Status) :
       workbook.Status[i].date_time = AkWallClock(workbook.Status[i].start)
  /\ \A i \in 1..Len(workbook.Connectivity) :
       workbook.Connectivity[i].date_time = AkWallClock(workbook.Connectivity[i].start)

\* C10, Summary and Connectivity sheets only: their 'Date/Time (AKDT)' and
\* 'Stop Time (AKDT)' cells are timezone-naive Alaska wall-clock times.
C10_SummaryAndConnectivityAlaska ==
  /\ \A i \in 1..Len(workbook.Summary) :
       /\ workbook.Summary[i].date_time = AkWallClock(workbook.Summary[i].start)
       /\ workbook.Summary[i].stop_time = AkWallClock(workbook.Summary[i].end)
  /\ \A i \in 1..Len(workbook.Connectivity) :
       workbook.Connectivity[i].date_time = AkWallClock(workbook.Connectivity[i].start)

\* ---------------------------------------------------------------- SpecFilter: the station filter of the tabs
\* frame[frame["station_id"].astype(str).isin(evse_ids_set)] when a station is picked
FilterEvse_keepAll(df, picks) == df

FilterEvse(df, picks) ==
  IF picks = {} THEN df
  ELSE [df EXCEPT !.rows = SelectSeq(@, LAMBDA r : AsStr(r.station_id) \in picks)]

\* One filter site of a script run on the frame df its read returned.  The
\* meter frame is filtered whenever a station is picked (lines 948-949); the
\* CEA, authorize, status and connectivity frames only when they are not
\* empty (lines 939-942, 1063-1064, 1843-1864, 1935-1942).  A frame without a
\* station_id column makes frame["station_id"] raise KeyError.
FilterSite(df, picks, guarded) ==
  IF picks = {} \/ (guarded /\ df.rows = <<>>)
  THEN [state |-> "used", used |-> df.rows]
  ELSE IF "station_id" \notin df.cols
  THEN [state |-> "KeyError", used |-> <<>>]
  ELSE [state |-> "used", used |-> FilterEvse(df, picks).rows]

\* the filter sites in the order the script reaches them
SiteOrder == <<"sidebar", "cea", "meter", "authorize", "status", "connectivity">>
SiteAfter(site) ==
  LET i == CHOOSE k \in 1..Len(SiteOrder) : SiteOrder[k] = site
  IN IF i < Len(SiteOrder) THEN SiteOrder[i + 1] ELSE "done"

EvseStationIds == {"S1", "S2", "int:7", Null}
\* set(str(x) for x in selected_evse_ids)
EvsePicks == SUBSET {"S1", "7"}
EvseRows == [station_id : EvseStationIds, timestamp : {10}]
EvseFrames ==
  {EmptyFrame} \cup
  {[cols |-> c, rows |-> rs] :
     c \in {{"timestamp", "station_id"}, {"timestamp"}},
     rs \in UNION {[1..n -> EvseRows] : n \in 0..MaxRows}}

\* the app before any tab, helper or filter has run
InitHelpers ==
  /\ tables = [t \in {ReadTable} |-> AbsentTable]
  /\ db_up = TRUE
  /\ mtime = 0
  /\ cache = <<>>
  /\ call = NoCall
  /\ mdf = EmptyFrame
  /\ auth_df = EmptyFrame
  /\ session_summary = NotBuilt
  /\ session_state = NoSessionState
  /\ run = NoRun
  /\ conn_df = <<>>
  /\ connectivity_view = NotBuilt
  /\ status_df = <<>>
  /\ workbook = NoWorkbook
  /\ applied = NotApplied

\* a script run begins: the sidebar gives selected_evse_ids
SidebarPick ==
  \E picks \in EvsePicks :
    /\ applied' = [applied EXCEPT !.evse_filter =
                     [NoEvseFilter EXCEPT !.selected_evse_ids = picks, !.site = "sidebar"]]
    /\ UNCHANGED appVars

\* the next filter site of the run, on the frame its read returned
FilterAt(site, guarded) ==
  \E df \in EvseFrames :
    LET f == applied.evse_filter
        r == FilterSite(df, f.selected_evse_ids, guarded)
    IN /\ f.state # "KeyError"
       /\ f.site # "none"
       /\ SiteAfter(f.site) = site
       /\ applied' = [applied EXCEPT !.evse_filter =
                        [f EXCEPT !.site = site, !.df = df,
                                  !.used = r.used, !.state = r.state]]
       /\ UNCHANGED appVars

FilterCea == FilterAt("cea", TRUE)
FilterMeter == FilterAt("meter", FALSE)
FilterAuth == FilterAt("authorize", TRUE)
FilterStatus == FilterAt("status", TRUE)
FilterConn == FilterAt("connectivity", TRUE)

NextFilter ==
  SidebarPick \/ FilterCea \/ FilterMeter \/ FilterAuth \/ FilterStatus \/ FilterConn

SpecFilter == InitHelpers /\ [][NextFilter]_vars

C11_WitnessKeyError ==
  LET f == applied.evse_filter
  IN f.state = "KeyError" /\ f.site = "meter" /\ f.df = EmptyFrame

\* ---------------------------------------------------------------- SpecSort: the orderings of the tables
\* add_akdt, line 747: AKDT = AKDT_dt.strftime("%Y-%m-%d %H:%M:%S"), the Alaska
\* wall-clock reading of the instant; zero padded, so the text orders as the
\* wall clock does
AkdtLabel(t) == IF t = NaT THEN NaT ELSE t + AkOffset(t)

\* lines 1916-1919: with st_aggrid the status grid is built with
\* configure_column("Date/Time (UTC)", sort="desc"), the column holding the
\* AKDT label: the grid shows the rows by descending label, blanks last;
\* without st_aggrid st.dataframe shows the frame as it is
StatusGrid(rows, aggrid) ==
  IF aggrid
  THEN StableSort(rows, [i \in 1..Len(rows) |->
                          IF rows[i].start = NaT THEN 1 ELSE 0 - AkdtLabel(rows[i].start)])
  ELSE rows

\* the table each tab shows: the session summary (1324, its grid sorted on the
\* hidden _start), the status history (1868-1878 then the grid), the
\* connectivity table (1983) and the Summary sheet (2021-2023)
ShownTable(table, rows, aggrid) ==
  IF table = "status" THEN StatusGrid(SortNewestFirst(rows), aggrid)
  ELSE SortNewestFirst(rows)

\* two instants in the hour repeated when daylight saving ends, one before
SortInstants == {50000, DstEnd - 1000, DstEnd + 1000, NaT}
SortTables == {"session_summary", "status", "connectivity", "summary_sheet"}
SortInputs ==
  UNION {[1..n -> SortInstants] : n \in 0..MaxEvents}
SortRows(ts) == [i \in 1..Len(ts) |-> [start |-> ts[i], pos |-> i]]

ShowTable(table) ==
  \E ts \in SortInputs, aggrid \in BOOLEAN :
    /\ table # "status" => aggrid = FALSE
    /\ applied' = [applied EXCEPT !.sorted =
                     [table |-> table, aggrid |-> aggrid, before |-> SortRows(ts),
                      after |-> ShownTable(table, SortRows(ts), aggrid)]]
    /\ UNCHANGED appVars

ShowSessionSummary == ShowTable("session_summary")
ShowStatus == ShowTable("status")
ShowConnectivity == ShowTable("connectivity")
ShowSummarySheet == ShowTable("summary_sheet")

NextSort == ShowSessionSummary \/ ShowStatus \/ ShowConnectivity \/ ShowSummarySheet
SpecSort == InitHelpers /\ [][NextSort]_vars

\* the rows of s are newest first by their instant, rows without one last, and
\* rows of one instant in the order they had before
NewestFirstStable(s) ==
  \A p, q \in 1..Len(s) :
    p < q =>
      /\ s[p].start = NaT => s[q].start = NaT
      /\ s[q].start # NaT => s[p].start >= s[q].start
      /\ s[p].start = s[q].start => s[p].pos < s[q].pos

\* C12 (as claimed): each of the four tables shows the rows it was given,
\* ordered by the event instant, newest first, rows of equal instant in their
\* previous relative order.
C12_NewestFirstStable ==
  LET t == applied.sorted
  IN t.table # "none" =>
       /\ Range(t.after) = Range(t.before) /\ Len(t.after) = Len(t.before)
       /\ NewestFirstStable(t.after)

\* C12 for the frames the code sorts itself: it holds for every table not
\* re-sorted by a grid on the label
C12_FramesNewestFirstStable ==
  LET t == applied.sorted
  IN (t.table # "none" /\ ~t.aggrid) =>
       /\ Range(t.after) = Range(t.before) /\ Len(t.after) = Len(t.before)
       /\ NewestFirstStable(t.after)

\* a table with two rows of one instant and a newer row read after them
C12_Witness ==
  LET t == applied.sorted
  IN /\ t.table = "connectivity" /\ Len(t.before) = 3
     /\ t.before[1].start = t.before[2].start /\ t.before[1].start # NaT
     /\ t.before[3].start # NaT /\ t.before[3].start > t.before[1].start
     /\ t.after[1].pos = 3 /\ t.after[2].pos = 1

\* ---------------------------------------------------------------- SpecRange: the sidebar window
\* a calendar in minutes: day d begins at wall-clock minute d * DayMin. Alaska
\* is on standard time (UTC-9) until 02:00 of SpringDay, on daylight time
\* (UTC-8) until 02:00 daylight time of FallDay, and on standard time after
DayMin == 1440
HourMin == 60
AkstMin == 540
AkdtMin == 480
SpringDay == 8
FallDay == 12
LastDay == 20
GapStart == SpringDay * DayMin + 2 * HourMin
FoldStart == FallDay * DayMin + 1 * HourMin

\* Timestamp.tz_localize(AK), ambiguous and nonexistent left at 'raise': the
\* skipped hour of SpringDay and the repeated hour of FallDay have no instant
AkLocalize(wall) ==
  IF wall >= GapStart /\ wall < GapStart + HourMin
  THEN [state |-> "NonExistentTimeError", utc |-> NaT]
  ELSE IF wall >= FoldStart /\ wall < FoldStart + HourMin
  THEN [state |-> "AmbiguousTimeError", utc |-> NaT]
  ELSE IF wall < GapStart \/ wall >= FoldStart + HourMin
  THEN [state |-> "ok", utc |-> wall + AkstMin]
  ELSE [state |-> "ok", utc |-> wall + AkdtMin]

\* the Alaska wall clock of a UTC instant (pd.Timestamp.now(tz=AK))
AkNow(utc) ==
  IF utc < GapStart + AkstMin \/ utc >= FoldStart + HourMin + AkdtMin
  THEN utc - AkstMin ELSE utc - AkdtMin

\* Timestamp.combine(date, time(hour, minute))
Combine(date, hour, minute) == date * DayMin + hour * HourMin + minute

\* akdt_range_to_utc_iso: the start is localized first, then the end
AkdtRangeToUtcIso(start_date, start_hour, end_date, end_hour) ==
  LET s == AkLocalize(Combine(start_date, start_hour, 0))
      e == AkLocalize(Combine(end_date, end_hour, 59))
  IN IF s.state # "ok" THEN [state |-> s.state, s |-> NaT, e |-> NaT]
     ELSE IF e.state # "ok" THEN [state |-> e.state, s |-> NaT, e |-> NaT]
     ELSE [state |-> "ok", s |-> s.utc, e |-> e.utc]

\* lines 303-307: now_ak, (now_ak - 7 days).date(), now_ak.date(), now_ak.hour;
\* the subtraction is of 7 * 24 elapsed hours
SidebarDefaults(now) ==
  LET now_ak == AkNow(now)
      week_ago == AkNow(now - 7 * DayMin)
  IN [today |-> now_ak \div DayMin,
      start_date |-> week_ago \div DayMin,
      end_date |-> now_ak \div DayMin,
      hour |-> (now_ak % DayMin) \div HourMin]

RangeDates == {SpringDay - 1, SpringDay, FallDay, FallDay + 1}
\* of the 24 hours offered, those around the two changes of the clock
RangeHours == {0, 1, 2, 3, 23}
\* the half hours of the days on which a week reaches back over the calendar
RangeNows == {d * DayMin + h * HourMin + 30 : d \in (SpringDay + 1)..LastDay, h \in 0..23}

RangeRun(by, today, start_date, start_hour, end_date, end_hour) ==
  \E r \in {AkdtRangeToUtcIso(start_date, start_hour, end_date, end_hour)} :
    /\ applied' = [applied EXCEPT !.range =
                     [by |-> by, today |-> today,
                      start_date |-> start_date, start_hour |-> start_hour,
                      end_date |-> end_date, end_hour |-> end_hour,
                      state |-> r.state, s |-> r.s, e |-> r.e]]
    /\ UNCHANGED appVars

\* a first run: the widgets hold their defaults
RunWithDefaults ==
  \E now \in RangeNows :
    \E d \in {SidebarDefaults(now)} :
      RangeRun("defaults", d.today, d.start_date, d.hour, d.end_date, d.hour)

\* a run after the user set the four widgets
RunWithPicks ==
  \E sd \in RangeDates, ed \in RangeDates, sh \in RangeHours, eh \in RangeHours :
    RangeRun("picks", 0, sd, sh, ed, eh)

NextRange == RunWithDefaults \/ RunWithPicks
SpecRange == InitHelpers /\ [][NextRange]_vars

\* C13 (as claimed): the window is the UTC instants of Alaska-local hh:00 of the
\* start and hh:59 of the end, the start bound strictly earlier than the end
\* bound when start date/hour <= end date/hour; by default the window starts 7
\* days before today and both hours are the current Alaska hour.
C13_WindowBounds ==
  LET w == applied.range
  IN w.by # "none" =>
       /\ w.state = "ok"
       /\ AkNow(w.s) = Combine(w.start_date, w.start_hour, 0)
       /\ AkNow(w.e) = Combine(w.end_date, w.end_hour, 59)
       /\ (Combine(w.start_date, w.start_hour, 0) <= Combine(w.end_date, w.end_hour, 0)
             => w.s < w.e)
       /\ w.by = "defaults" =>
            /\ w.start_date = w.today - 7 /\ w.end_date = w.today
            /\ w.start_hour = w.end_hour

\* C13 where both local times exist once: the bounds are as claimed
C13_BoundsWhereDefined ==
  LET w == applied.range
  IN w.state = "ok" =>
       /\ AkNow(w.s) = Combine(w.start_date, w.start_hour, 0)
       /\ AkNow(w.e) = Combine(w.end_date, w.end_hour, 59)
       /\ (Combine(w.start_date, w.start_hour, 0) <= Combine(w.end_date, w.end_hour, 0)
             => w.s < w.e)

\* the start hour picked is the hour skipped when daylight saving begins
C13_WitnessNonExistent ==
  applied.range.state = "NonExistentTimeError" /\ applied.range.by = "picks"

\* the app is opened in the repeated hour: the default end bound is ambiguous
C13_WitnessAmbiguousDefault ==
  applied.range.state = "AmbiguousTimeError" /\ applied.range.by = "defaults"

\* the default start date is not 7 days before today
C13_WitnessDefaultDate ==
  LET w == applied.range
  IN w.by = "defaults" /\ w.state = "ok" /\ w.start_date # w.today - 7

\* ---------------------------------------------------------------- SpecEngine: get_engine
\* values of an environment variable: absent, empty, a URL create_engine
\* accepts, and a text it raises on (unparsable, unknown dialect, no driver)
EnvValues ==
  {Null, "", "postgresql://render", "postgresql://other", "not a url", "nodriver://host/db"}
EngineUrls == {"postgresql://render", "postgresql://other"}
DbPaths == {"database/lynkwell_data.db", "/tmp/other.db", ""}

\* create_engine(url)
CreateEngine(url) ==
  IF url \in EngineUrls THEN [state |-> "engine", dialect |-> "postgresql", target |-> url]
  ELSE [state |-> "raises", dialect |-> Null, target |-> url]

\* create_engine(URL.create("sqlite", database=str(db_path)))
SqliteEngine(db_path) == [state |-> "engine", dialect |-> "sqlite", target |-> db_path]

ConfiguredUrl_databaseFirst(environ) ==
  IF Truthy(environ.DATABASE_URL) THEN environ.DATABASE_URL ELSE environ.RENDER_DB_URL

\* line 43: os.environ.get("RENDER_DB_URL") or os.environ.get("DATABASE_URL")
ConfiguredUrl(environ) ==
  IF Truthy(environ.RENDER_DB_URL) THEN environ.RENDER_DB_URL ELSE environ.DATABASE_URL

\* get_engine(db_path)
GetEngine(environ, db_path) ==
  LET render_db_url == ConfiguredUrl(environ)
  IN IF Truthy(render_db_url) /\ CreateEngine(render_db_url).state = "engine"
     THEN CreateEngine(render_db_url)
     ELSE SqliteEngine(db_path)

\* the process is started with an environment
SetEnviron ==
  \E r \in EnvValues, d \in EnvValues :
    /\ applied' = [applied EXCEPT !.engine =
                     [NoEngine EXCEPT !.environ = [RENDER_DB_URL |-> r, DATABASE_URL |-> d]]]
    /\ UNCHANGED appVars

GetEngineCall ==
  \E db_path \in DbPaths :
    /\ applied' = [applied EXCEPT !.engine.called = TRUE,
                                  !.engine.db_path = db_path,
                                  !.engine.result = GetEngine(applied.engine.environ, db_path)]
    /\ UNCHANGED appVars

NextEngine == SetEnviron \/ GetEngineCall
SpecEngine == InitHelpers /\ [][NextEngine]_vars

\* C14: get_engine returns an engine in every case: that of RENDER_DB_URL when
\* it is set (to a text), otherwise that of DATABASE_URL when it is set,
\* otherwise the SQLite file at db_path; and the SQLite file also when the
\* configured URL cannot be turned into an engine.
C14_EnginePriority ==
  LET g == applied.engine
      configured == IF Truthy(g.environ.RENDER_DB_URL) THEN g.environ.RENDER_DB_URL
                    ELSE IF Truthy(g.environ.DATABASE_URL) THEN g.environ.DATABASE_URL
                    ELSE Null
  IN g.called =>
       /\ g.result.state = "engine"
       /\ IF configured \in EngineUrls
          THEN g.result.dialect = "postgresql" /\ g.result.target = configured
          ELSE g.result.dialect = "sqlite" /\ g.result.target = g.db_path

\* RENDER_DB_URL is unusable and DATABASE_URL is good: the SQLite file is used
C14_Witness ==
  LET g == applied.engine
  IN /\ g.called
     /\ g.environ.RENDER_DB_URL = "not a url"
     /\ g.environ.DATABASE_URL = "postgresql://other"
     /\ g.result = SqliteEngine(g.db_path)

\* both are set and usable: RENDER_DB_URL wins
C14_WitnessBothSet ==
  LET g == applied.engine
  IN /\ g.called
     /\ g.environ.RENDER_DB_URL = "postgresql://render"
     /\ g.environ.DATABASE_URL = "postgresql://other"
     /\ g.result.target = "postgresql://render"

\* ---------------------------------------------------------------- SpecCodes: the error-code table
\* astype(str).str.strip() on the cells of the uploaded sheets
CellStrip(v) ==
  CASE v = " E1 " -> "E1"
    [] OTHER -> v

\* str.lower() on the stripped cells
CellLower(v) ==
  CASE v = "Code" -> "code"
    [] v = "Description" -> "description"
    [] OTHER -> v

\* lines 660 and 671: first letter of the impact cell in upper case, kept only
\* when it is N, L or H
ImpactLetter(v) ==
  CASE v = "h" -> "H"
    [] v = "low" -> "L"
    [] OTHER -> ""

\* lines 657-675: the normalized frame of one sheet, without repeated headers
\* and blank codes
NormalizeSheet(platform, rows) ==
  LET out == [i \in 1..Len(rows) |->
                [platform |-> platform,
                 code |-> CellStrip(rows[i].code),
                 impact |-> ImpactLetter(rows[i].impact),
                 description |-> CellStrip(rows[i].description)]]
  IN SelectSeq(out, LAMBDA r : /\ CellLower(r.code) # "code"
                               /\ CellLower(r.description) # "description"
                               /\ r.code # "")

\* lines 643-677: a sheet that is missing, empty or without a code or
\* description column gives no frame
SheetFrame(platform, sheet) ==
  IF sheet.state # "ok" THEN <<>> ELSE NormalizeSheet(platform, sheet.rows)

\* pd.concat(frames): RT50 first, then RTM
AllRows(wb) == SheetFrame("RT50", wb.RT50) \o SheetFrame("RTM", wb.RTM)

Upsert_insertOnly(rows, r) == rows \cup {r}

\* INSERT ... ON CONFLICT(platform, code) DO UPDATE SET impact, description
Upsert(rows, r) ==
  {x \in rows : ~(x.platform = r.platform /\ x.code = r.code)} \cup {r}

\* lines 684-696: the rows are upserted one by one in one transaction
RECURSIVE UpsertAll(_, _)
UpsertAll(rows, all_rows) ==
  IF all_rows = <<>> THEN rows
  ELSE UpsertAll(Upsert(rows, Head(all_rows)), Tail(all_rows))

\* upsert_error_codes_from_excel: ensure_error_code_table creates the table
\* when it is missing, then the rows found are upserted
UpsertErrorCodesFromExcel(tbl, wb) ==
  [exists |-> TRUE, rows |-> UpsertAll(tbl.rows, AllRows(wb))]

CodeCells ==
  {[code |-> "E1", impact |-> "h", description |-> "d1"],
   [code |-> " E1 ", impact |-> "x", description |-> "d2"],
   [code |-> "E2", impact |-> "low", description |-> "d1"],
   [code |-> "Code", impact |-> "h", description |-> "Description"],
   [code |-> "", impact |-> "h", description |-> "d1"]}
Rt50Sheets ==
  {[state |-> "ok", rows |-> rs] : rs \in UNION {[1..n -> CodeCells] : n \in 0..MaxRows}}
RtmSheets ==
  {[state |-> "absent", rows |-> <<>>],
   [state |-> "no description column", rows |-> <<[code |-> "E1", impact |-> "h", description |-> "d1"]>>],
   [state |-> "ok", rows |-> <<[code |-> "E1", impact |-> "h", description |-> "d2"]>>]}
CodeWorkbooks == [RT50 : Rt50Sheets, RTM : RtmSheets]

UploadOf(wb, again) ==
  \E t \in {UpsertErrorCodesFromExcel(applied.error_codes.table, wb)} :
    /\ applied' = [applied EXCEPT !.error_codes =
                     [table |-> t, uploaded |-> wb, calls |-> "some", again |-> again]]
    /\ UNCHANGED appVars

\* a workbook is uploaded
Upload == \E wb \in CodeWorkbooks : UploadOf(wb, FALSE)

\* the workbook of the last call is uploaded once more
UploadAgain ==
  /\ applied.error_codes.calls = "some"
  /\ UploadOf(applied.error_codes.uploaded, TRUE)

NextCodes == Upload \/ UploadAgain
SpecCodes == InitHelpers /\ [][NextCodes]_vars

SameKey(x, y) == x.platform = y.platform /\ x.code = y.code

\* C15: every call leaves at most one row per (platform, code); a key the call
\* processed holds the impact and description of the last row processed with
\* that key, every other row stays as it was; and a call with the workbook of
\* the call before leaves the table unchanged.
C15_UpsertKeepsLatest ==
  [][\A before \in {applied.error_codes.table.rows},
        after \in {applied'.error_codes.table.rows},
        all_rows \in {AllRows(applied'.error_codes.uploaded)} :
      LET n == Len(all_rows)
      IN
        /\ \A x, y \in after : SameKey(x, y) => x = y
        /\ \A i \in 1..n :
             (\A j \in (i + 1)..n : ~SameKey(all_rows[i], all_rows[j]))
               => all_rows[i] \in after
        /\ \A x \in before :
             (\A i \in 1..n : ~SameKey(all_rows[i], x)) => x \in after
        /\ \A x \in after : x \in before \/ x \in Range(all_rows)
        /\ applied'.error_codes.again => after = before]_vars

\* the table holds the later of two rows of one sheet with the same code, next
\* to a row of the other platform, after the workbook was uploaded twice
C15_Witness ==
  LET c == applied.error_codes
  IN /\ c.again
     /\ Len(c.uploaded.RT50.rows) = 2
     /\ c.uploaded.RT50.rows[1].code = "E1" /\ c.uploaded.RT50.rows[2].code = " E1 "
     /\ c.uploaded.RTM.state = "ok"
     /\ c.table.rows =
          {[platform |-> "RT50", code |-> "E1", impact |-> "", description |-> "d2"],
           [platform |-> "RTM", code |-> "E1", impact |-> "H", description |-> "d2"]}

\* ---------------------------------------------------------------- SpecVolts: add_hvb_volts
\* Series.round(0) of p / a: to the nearest whole number, a half to the even one
RoundDiv(p, a) ==
  LET q == p \div a
      r == p % a
  IN IF 2 * r < a THEN q
     ELSE IF 2 * r > a THEN q + 1
     ELSE IF q % 2 = 0 THEN q ELSE q + 1

\* lines 761-767 for one row: the quotient where power and amps are both
\* positive numbers, <NA> (NaN) elsewhere
ComputedVolts(r) ==
  IF r.power_w # NaN /\ r.amperage_import # NaN /\ r.power_w > 0 /\ r.amperage_import > 0
  THEN RoundDiv(r.power_w, r.amperage_import)
  ELSE NaN

\* add_hvb_volts(df): when the frame has both columns, out["hvb_volts"] is
\* assigned the computed series for every row
AddHvbVolts(df) ==
  IF "power_w" \in df.cols /\ "amperage_import" \in df.cols
  THEN [cols |-> df.cols \cup {"hvb_volts"},
        rows |-> [i \in 1..Len(df.rows) |->
                    [df.rows[i] EXCEPT !.hvb_volts = ComputedVolts(df.rows[i])]]]
  ELSE df

\* a cell of a column the frame lacks reads as missing
VoltRows(cols) ==
  [power_w : IF "power_w" \in cols THEN {NaN, 0, 1000, 5} ELSE {NaN},
   amperage_import : IF "amperage_import" \in cols THEN {NaN, 2} ELSE {NaN},
   hvb_volts : IF "hvb_volts" \in cols THEN {NaN, 400} ELSE {NaN}]
VoltFrames ==
  {[cols |-> c, rows |-> rs] :
     c \in {{"power_w", "amperage_import", "hvb_volts"}, {"power_w", "amperage_import"},
            {"power_w", "hvb_volts"}},
     rs \in UNION {[1..n -> [power_w : {NaN, 0, 1000, 5}, amperage_import : {NaN, 2},
                             hvb_volts : {NaN, 400}]] : n \in 1..MaxRows}}

\* line 971: mdf = add_hvb_volts(mdf) on the combined meter frame
AddHvbVoltsCall ==
  \E df \in VoltFrames :
    /\ \A i \in 1..Len(df.rows) : df.rows[i] \in VoltRows(df.cols)
    /\ applied' = [applied EXCEPT !.hvb = [called |-> TRUE, df |-> df, out |-> AddHvbVolts(df)]]
    /\ UNCHANGED appVars

NextVolts == AddHvbVoltsCall
SpecVolts == InitHelpers /\ [][NextVolts]_vars

\* C16 (as claimed): a row that carries a voltage before add_hvb_volts carries
\* the same voltage after it; only rows lacking one get the computed value.
C16_MeasuredVoltsKept ==
  LET h == applied.hvb
  IN h.called =>
       \A i \in 1..Len(h.df.rows) :
         IF h.df.rows[i].hvb_volts # NaN
         THEN h.out.rows[i].hvb_volts = h.df.rows[i].hvb_volts
         ELSE h.out.rows[i].hvb_volts \in {NaN, ComputedVolts(h.df.rows[i])}

\* what the code does: without both columns the frame is returned as it is, with
\* them every row's hvb_volts is the computed value
C16_VoltsRecomputed ==
  LET h == applied.hvb
  IN h.called =>
       IF {"power_w", "amperage_import"} \subseteq h.df.cols
       THEN \A i \in 1..Len(h.df.rows) :
              h.out.rows[i].hvb_volts = ComputedVolts(h.df.rows[i])
       ELSE h.out = h.df

\* a CEA row with a measured 400 V, 1000 W and 2 A leaves with 500 V
C16_WitnessOverwritten ==
  LET h == applied.hvb
  IN /\ h.called /\ Len(h.df.rows) = 1
     /\ h.df.rows[1] = [power_w |-> 1000, amperage_import |-> 2, hvb_volts |-> 400]
     /\ h.out.rows[1].hvb_volts = 500

\* ---------------------------------------------------------------- SpecStats: the session statistics
\* g[col].max() and g[col].min() of one transaction: over the samples that
\* have a number, NaN when none has or the column is missing
GroupMax(samples, col) ==
  LET vs == {samples[i][col] : i \in 1..Len(samples)} \ {NaN}
  IN IF vs = {} THEN NaN ELSE SeqMax(vs)
GroupMin(samples, col) ==
  LET vs == {samples[i][col] : i \in 1..Len(samples)} \ {NaN}
  IN IF vs = {} THEN NaN ELSE SeqMin(vs)

\* line 1149, in hundredths of a kWh: ((emax - emin).clip(lower=0) / 1000).round(2)
EnergyKwh(samples) ==
  LET emax == GroupMax(samples, "energy_wh")
      emin == GroupMin(samples, "energy_wh")
      diff == emax - emin
  IN IF emax = NaN THEN NaN
     ELSE RoundDiv(IF diff < 0 THEN 0 ELSE diff, 10)

MaxPowerKw_lastSample(samples) ==
  IF samples[Len(samples)].power_w = NaN THEN NaN
  ELSE RoundDiv(samples[Len(samples)].power_w, 10)

\* line 1150, in hundredths of a kW: (g["power_w"].max() / 1000).round(2)
MaxPowerKw(samples) ==
  LET pmax == GroupMax(samples, "power_w")
  IN IF pmax = NaN THEN NaN ELSE RoundDiv(pmax, 10)

\* samples of one transaction; a frame without the column reads NaN
StatEnergies == {100, 1234, 5000}
StatPowers == {12344, 50000}
StatSamples ==
  UNION {[1..n -> [energy_wh : {NaN} \cup StatEnergies, power_w : {NaN} \cup StatPowers]] :
           n \in 1..MaxRows}

\* the statistics of one session row are computed
SessionStats ==
  \E samples \in StatSamples :
    /\ applied' = [applied EXCEPT !.stats =
                     [called |-> TRUE, samples |-> samples,
                      energy_kwh |-> EnergyKwh(samples),
                      max_power_kw |-> MaxPowerKw(samples)]]
    /\ UNCHANGED appVars

NextStats == SessionStats
SpecStats == InitHelpers /\ [][NextStats]_vars

\* v is the largest (smallest) number of the column among the samples
IsLargest(v, samples, col) ==
  /\ \E i \in 1..Len(samples) : samples[i][col] = v
  /\ \A i \in 1..Len(samples) : samples[i][col] = NaN \/ samples[i][col] <= v
IsSmallest(v, samples, col) ==
  /\ \E i \in 1..Len(samples) : samples[i][col] = v
  /\ \A i \in 1..Len(samples) : samples[i][col] = NaN \/ samples[i][col] >= v

\* Energy kWh is never negative and, with hi the largest and lo the smallest
\* energy_wh of the samples, is (hi - lo) / 1000 to the nearest hundredth
EnergyAsClaimed(t) ==
  /\ t.energy_kwh = NaN \/ t.energy_kwh >= 0
  /\ \A hi, lo \in StatEnergies :
       (IsLargest(hi, t.samples, "energy_wh") /\ IsSmallest(lo, t.samples, "energy_wh"))
         => /\ t.energy_kwh # NaN
            /\ 2 * (10 * t.energy_kwh - (hi - lo)) \in -10..10

\* C17 (as claimed): Energy kWh is (largest - smallest energy_wh) / 1000 rounded
\* to two decimals and never negative; Max Power kW is exactly the largest
\* power_w / 1000.
C17_StatsExactPower ==
  LET t == applied.stats
  IN t.called =>
       /\ EnergyAsClaimed(t)
       /\ \A hi \in StatPowers :
            IsLargest(hi, t.samples, "power_w")
              => t.max_power_kw # NaN /\ 10 * t.max_power_kw = hi

\* C17 (amended): Energy kWh as claimed; Max Power kW is the largest power_w /
\* 1000 rounded to two decimals.
C17_StatsRounded ==
  LET t == applied.stats
  IN t.called =>
       /\ EnergyAsClaimed(t)
       /\ \A hi \in StatPowers :
            IsLargest(hi, t.samples, "power_w")
              => /\ t.max_power_kw # NaN
                 /\ 2 * (10 * t.max_power_kw - hi) \in -10..10

\* a session whose samples rise from 100 Wh to 1234 Wh and peak at 12344 W
\* before the last sample: 1.13 kWh and 12.34 kW
C17_Witness ==
  LET t == applied.stats
  IN /\ t.called /\ Len(t.samples) = 2
     /\ t.samples[1] = [energy_wh |-> 1234, power_w |-> 50000]
     /\ t.samples[2] = [energy_wh |-> 100, power_w |-> 12344]
     /\ t.energy_kwh = 113 /\ t.max_power_kw = 5000

\* ---------------------------------------------------------------- SpecNames: friendly_evse_dynamic
\* two entries of the curated map of lines 80-88
EVSE_NAME_MAP ==
  [sid \in {"as_oXoa7HXphUu5riXsSW253", "CEA"} |->
     IF sid = "CEA" THEN "CEA" ELSE "Delta - Right"]

\* load_assets_map: asset_id -> name of the assets table, the id itself where
\* the name is NULL
LoadAssetsMap(rows) ==
  [a \in DOMAIN rows |-> IF rows[a] = Null THEN a ELSE rows[a]]

FriendlyEvseDynamic_assetFirst(sid, assets) ==
  IF sid \in DOMAIN assets /\ Truthy(assets[sid]) THEN assets[sid]
  ELSE IF sid \in DOMAIN EVSE_NAME_MAP /\ Truthy(EVSE_NAME_MAP[sid]) THEN EVSE_NAME_MAP[sid]
  ELSE sid

\* friendly_evse_dynamic(sid) reading the module's ASSET_NAME_MAP
FriendlyEvseDynamic(sid, assets) ==
  IF sid \in DOMAIN EVSE_NAME_MAP /\ Truthy(EVSE_NAME_MAP[sid]) THEN EVSE_NAME_MAP[sid]
  ELSE IF sid \in DOMAIN assets /\ Truthy(assets[sid]) THEN assets[sid]
  ELSE sid

AssetIds == {"as_oXoa7HXphUu5riXsSW253", "S1", "S2"}
AssetRowNames == {Null, "", "RT50 unit"}
AssetTables == UNION {[D -> AssetRowNames] : D \in SUBSET AssetIds}
NameIds == AssetIds \cup {"CEA", "S3", ""}

\* line 284: ASSET_NAME_MAP = load_assets_map(...)
LoadAssets ==
  \E rows \in AssetTables :
    /\ applied' = [applied EXCEPT !.names = [NoNames EXCEPT !.ASSET_NAME_MAP = LoadAssetsMap(rows)]]
    /\ UNCHANGED appVars

FriendlyCall ==
  \E sid \in NameIds :
    /\ applied' = [applied EXCEPT !.names.called = TRUE,
                                  !.names.sid = sid,
                                  !.names.result = FriendlyEvseDynamic(sid, applied.names.ASSET_NAME_MAP)]
    /\ UNCHANGED appVars

NextNames == LoadAssets \/ FriendlyCall
SpecNames == InitHelpers /\ [][NextNames]_vars

\* C18: the result is the curated name when the id has a non-empty one,
\* otherwise the asset name when that is non-empty, otherwise the id; it is
\* never empty for a non-empty id.
C18_FriendlyName ==
  LET f == applied.names
      curated == f.sid \in DOMAIN EVSE_NAME_MAP /\ EVSE_NAME_MAP[f.sid] # ""
      asset == f.sid \in DOMAIN f.ASSET_NAME_MAP /\ f.ASSET_NAME_MAP[f.sid] # ""
  IN f.called =>
       /\ curated => f.result = EVSE_NAME_MAP[f.sid]
       /\ (~curated /\ asset) => f.result = f.ASSET_NAME_MAP[f.sid]
       /\ (~curated /\ ~asset) => f.result = f.sid
       /\ f.sid # "" => f.result # ""

\* an id with both a curated name and an asset name shows the curated one
C18_Witness ==
  LET f == applied.names
  IN /\ f.called /\ f.sid = "as_oXoa7HXphUu5riXsSW253"
     /\ f.sid \in DOMAIN f.ASSET_NAME_MAP /\ f.ASSET_NAME_MAP[f.sid] = "RT50 unit"
     /\ f.result = "Delta - Right"

\* an id whose asset name is empty shows the id
C18_WitnessEmptyAssetName ==
  LET f == applied.names
  IN /\ f.called /\ f.sid = "S1"
     /\ f.sid \in DOMAIN f.ASSET_NAME_MAP /\ f.ASSET_NAME_MAP[f.sid] = ""
     /\ f.result = "S1"

\* ---------------------------------------------------------------- Spec: the script run
\* table_list: the tables of the database, [] when the inspector cannot read them
TableList(tbls, up) == IF up THEN {t \in DOMAIN tbls : tbls[t].exists} ELSE {}

\* line 927
MeterTable(avail) ==
  IF "realtime_meter_values" \in avail THEN "realtime_meter_values"
  ELSE IF "meter_values" \in avail THEN "meter_values" ELSE Null

\* lines 1060-1061
AuthTable(avail) ==
  IF "realtime_authorize" \in avail THEN "realtime_authorize"
  ELSE IF "authorize" \in avail THEN "authorize" ELSE Null

\* read_range called through st.cache_data with the memo c: a call whose key is
\* memoized returns the memoized frame, another runs the body and memoizes it
CachedReadRange(c, table, start_iso, end_iso, evse_id) ==
  LET key == CacheKey(table, start_iso, end_iso, evse_id, DbMtime)
      hit == key \in DOMAIN c
      memo == IF hit THEN c[key]
              ELSE [df |-> ReadRange(tables, db_up, table, start_iso, end_iso, evse_id),
                    mtime |-> DbMtime]
  IN [cache |-> IF hit THEN c ELSE c @@ (key :> memo),
      df |-> memo.df, hit |-> hit, memo_mtime |-> memo.mtime]

\* The Charging Sessions tab (lines 920-1333) of a script run for the
\* sidebar's window and station picks, on a database without CEA tables: the
\* memo, the session state and the record of the run when the tab is left,
\* and whether an exception ended the run there.
ChargingSessionsTab(start, end, picks) ==
  LET avail == TableList(tables, db_up)
      meter_table == MeterTable(avail)
      a_tbl == AuthTable(avail)
      rm == CachedReadRange(cache, meter_table, start, end, Null)
      key_error == picks # {} /\ "station_id" \notin rm.df.cols
      mdf1 == FilterEvse(rm.df, picks)
      df == NormalizeKeys(mdf1)
      ra == CachedReadRange(rm.cache, a_tbl, start, end, Null)
      auth == IF a_tbl = Null THEN EmptyFrame
              ELSE IF ra.df.rows # <<>> THEN FilterEvse(ra.df, picks) ELSE ra.df
      cache1 == IF a_tbl = Null THEN rm.cache ELSE ra.cache
      built == BuildSessionSummary(df, auth)
      ctx == [start |-> start, end |-> end, evse_ids |-> picks, db_mtime |-> DbMtime]
      begun == [NoRun EXCEPT !.start = start, !.end = end, !.evse_ids = picks,
                             !.at_mtime = DbMtime]
      did_read == [begun EXCEPT !.read = TRUE, !.hit = rm.hit, !.memo_mtime = rm.memo_mtime]
      has_df == [did_read EXCEPT !.df_defined = TRUE]
      ss1 == [session_state EXCEPT !.has_auth_df_display = TRUE, !.auth_df_display = auth]
  IN IF meter_table = Null
     THEN [cache |-> cache, ss |-> session_state, run |-> begun, aborted |-> FALSE]
     ELSE IF key_error
     THEN [cache |-> rm.cache, ss |-> session_state,
           run |-> [did_read EXCEPT !.status = "KeyError"], aborted |-> TRUE]
     ELSE IF mdf1.rows = <<>>
     THEN [cache |-> rm.cache, ss |-> session_state,
           run |-> [has_df EXCEPT !.summary = "empty"], aborted |-> FALSE]
     ELSE IF built.state = "raised"
     THEN [cache |-> cache1, ss |-> ss1,
           run |-> [has_df EXCEPT !.status = "ValueError"], aborted |-> TRUE]
     ELSE IF built.rows = <<>>
     THEN [cache |-> cache1, ss |-> ss1,
           run |-> [has_df EXCEPT !.summary = "empty"], aborted |-> FALSE]
     ELSE [cache |-> cache1,
           ss |-> [ss1 EXCEPT !.has_export = TRUE,
                              !.export_session_summary = built.rows,
                              !.export_context = ctx],
           run |-> [has_df EXCEPT !.summary = "built", !.summary_rows = built.rows],
           aborted |-> FALSE]

\* The Data Export tab (lines 1990-2122) of the same run, up to the workbook
DataExportTab(tab0) ==
  LET exp_summary == tab0.ss.export_session_summary
  IN IF tab0.aborted THEN tab0.run
     ELSE IF ~tab0.ss.has_export \/ exp_summary = <<>>
     THEN [tab0.run EXCEPT !.status = "stopped"]
     ELSE IF ~tab0.run.df_defined
     THEN [tab0.run EXCEPT !.status = "NameError"]
     ELSE [tab0.run EXCEPT !.status = "exported",
                           !.sheet_summary = SortNewestFirst(exp_summary),
                           !.sheet_context = tab0.ss.export_context]

RunTables == {"meter_values", "authorize"}
RunCols(t) ==
  IF t = "meter_values" THEN {"timestamp", "station_id", "connector_id", "transaction_id"}
  ELSE {"timestamp", "station_id", "connector_id", "VID", "id_tag"}
RunMeterRows ==
  {[station_id |-> "S1", connector_id |-> 1, txn |-> "T1", timestamp |-> 15, ts_ok |-> TRUE],
   [station_id |-> "S2", connector_id |-> 1, txn |-> "T2", timestamp |-> 25, ts_ok |-> TRUE]}
RunAuthRows ==
  {[station_id |-> "S1", connector_id |-> 1, timestamp |-> 14, ts_ok |-> TRUE,
    VID |-> "A1", id_tag |-> "tag9"]}
\* the windows of the sidebar (start, end) and its station picks
RunWindows == {<<10, 20>>, <<21, 30>>}
RunPicks == {{}, {"S1"}}

Init ==
  /\ tables \in [RunTables ->
                   {AbsentTable} \cup
                   {[exists |-> TRUE, cols |-> RunCols(t), rows |-> <<>>] : t \in RunTables}]
  /\ \A t \in RunTables : tables[t].exists => tables[t].cols = RunCols(t)
  /\ db_up = TRUE
  /\ mtime = 0
  /\ cache = <<>>
  /\ call = NoCall
  /\ mdf = EmptyFrame
  /\ auth_df = EmptyFrame
  /\ session_summary = NotBuilt
  /\ session_state = NoSessionState
  /\ run = NoRun
  /\ conn_df = <<>>
  /\ connectivity_view = NotBuilt
  /\ status_df = <<>>
  /\ workbook = NoWorkbook
  /\ applied = NotApplied

RunCreate ==
  \E t \in RunTables :
    CreateTable(t, RunCols(t)) /\ UNCHANGED <<db_up, cache, call, uiVars, tabVars, frameVars, applied>>
RunDrop ==
  \E t \in RunTables :
    DropTable(t) /\ UNCHANGED <<db_up, cache, call, uiVars, tabVars, frameVars, applied>>
RunInsertMeter ==
  \E r \in RunMeterRows :
    InsertRow("meter_values", r) /\ UNCHANGED <<db_up, cache, call, uiVars, tabVars, frameVars, applied>>
RunInsertAuth ==
  \E r \in RunAuthRows :
    InsertRow("authorize", r) /\ UNCHANGED <<db_up, cache, call, uiVars, tabVars, frameVars, applied>>
RunOutage == db_up' = ~db_up /\ UNCHANGED <<tables, mtime, cache, call, uiVars, tabVars, frameVars, applied>>
\* the user changes an input (or only reloads): the whole script runs
ScriptRun ==
  \E w \in RunWindows, picks \in RunPicks :
    \E tab0 \in {ChargingSessionsTab(w[1], w[2], picks)} :
       /\ Cardinality(DOMAIN tab0.cache) <= MaxCached
       /\ cache' = tab0.cache
       /\ session_state' = tab0.ss
       /\ run' = DataExportTab(tab0)
       /\ UNCHANGED <<dbVars, call, frameVars, tabVars, applied>>

Next == RunCreate \/ RunDrop \/ RunInsertMeter \/ RunInsertAuth \/ RunOutage \/ ScriptRun

Spec == Init /\ [][Next]_vars

\* C1 (as claimed): a read served from the memo was memoized under the file's
\* current modification time, never under an older one.
C1_MtimeInvalidatesMemo == run.read /\ run.hit => run.memo_mtime = run.at_mtime

\* C2 (as claimed): the Summary sheet of an exported workbook is the summary
\* this run computed, and the stored export_context names this run's window
\* and station picks.
C2_SummaryIsThisRuns ==
  run.status = "exported" =>
    /\ run.summary = "built"
    /\ run.sheet_summary = run.summary_rows
    /\ run.sheet_context.start = run.start
    /\ run.sheet_context.end = run.end
    /\ run.sheet_context.evse_ids = run.evse_ids

\* C8 (as claimed): a run whose export tab goes on to build the workbook has
\* defined the main meter frame df before.
C8_ExportFramesDefined == run.status # "NameError"

\* C3 (as claimed): a meter or authorize row whose timestamp cannot be parsed
\* never aborts the session-summary build and the ID-tag matching.
C3_BuildNeverAborts == session_summary.state # "raised"

\* C7: the ID Tag of a session is blank or the 'VID:' value of an authorize
\* record of the session's station whose instant is at or before the session
\* start and at most 30 minutes before it.
C7_IdTagFromPriorRecord ==
  \A i \in 1..Len(session_summary.rows) :
    LET r == session_summary.rows[i]
    IN \/ r.id_tag = ""
       \/ \E j \in 1..Len(auth_df.rows) :
            LET a == auth_df.rows[j]
            IN /\ a.station_id = r.station_id
               /\ a.ts_ok
               /\ a.timestamp <= r.start
               /\ r.start - a.timestamp <= 1800
               /\ VidNorm(a) = r.id_tag
               /\ r.id_tag # ""

\* a session tagged from a record of its station while the frame also holds a
\* record of another station, or a later or an older one, that was not used
C7_Witness ==
  \E i \in 1..Len(session_summary.rows) :
    LET r == session_summary.rows[i]
    IN /\ r.id_tag # ""
       /\ \E j \in 1..Len(auth_df.rows) :
            LET a == auth_df.rows[j]
            IN /\ VidNorm(a) # ""
               /\ \/ a.station_id # r.station_id
                  \/ a.timestamp > r.start
                  \/ r.start - a.timestamp > 1800

\* a session left blank although another station holds a record just before
\* its start
C7_WitnessBlank ==
  \E i \in 1..Len(session_summary.rows) :
    LET r == session_summary.rows[i]
    IN /\ r.id_tag = ""
       /\ \E j \in 1..Len(auth_df.rows) :
            LET a == auth_df.rows[j]
            IN /\ VidNorm(a) # "" /\ a.station_id # r.station_id
               /\ a.ts_ok /\ a.timestamp <= r.start /\ r.start - a.timestamp <= 60

\* C5 (as claimed): the built summary has exactly one row for each distinct
\* non-blank transaction identifier of the meter rows, and rows whose identifier
\* is missing, empty, 'None', 'nan' or 'null' belong to no session row.
C5_OneRowPerTransaction ==
  LET trim(v) == IF v = " T1" THEN "T1" ELSE v
      blank == {Null, "", "None", "nan", "null"}
      ids == {trim(mdf.rows[i].txn) : i \in 1..Len(mdf.rows)} \ blank
      out == session_summary.rows
  IN session_summary.state = "built" =>
       /\ {out[i].transaction_id : i \in 1..Len(out)} = ids
       /\ Len(out) = Cardinality(ids)

\* C5 on a frame whose identifier column is named transaction_id
C5_HoldsForTransactionIdColumn ==
  "transaction_id" \in mdf.cols => C5_OneRowPerTransaction

\* a summary built from a frame keyed by the fallback column session_id that
\* holds a row with an empty identifier
C5_Witness ==
  /\ session_summary.state = "built"
  /\ TxnColOf(mdf.cols) = "session_id"
  /\ \E i \in 1..Len(mdf.rows) : mdf.rows[i].txn = ""

\* C6 (as claimed): Duration (min) equals the minutes between the latest and
\* the earliest sample of the transaction, exactly.
C6_DurationExact ==
  \A i \in 1..Len(session_summary.rows) :
    LET r == session_summary.rows[i]
    IN r.start # NaT => 60 * r.duration_min = 100 * (r.end - r.start)

\* C6 (amended): for every session row, the start is the earliest and the end
\* the latest parseable meter sample of the transaction; Duration (min) is the
\* minutes between them rounded to two decimals and is never negative; a
\* transaction with no parseable sample has no start and no duration.
C6_DurationRounded ==
  LET rows == NormalizeKeys(mdf).rows
  IN \A i \in 1..Len(session_summary.rows) :
       LET r == session_summary.rows[i]
           ts == {rows[j].timestamp : j \in {j \in 1..Len(rows) :
                    rows[j].txn = r.transaction_id /\ rows[j].ts_ok}}
           d == r.end - r.start
           h == r.duration_min
       IN IF ts = {}
          THEN r.start = NaT /\ r.end = NaT /\ h = NaN
          ELSE /\ r.start \in ts /\ \A t \in ts : r.start <= t
               /\ r.end \in ts /\ \A t \in ts : t <= r.end
               /\ h >= 0
               /\ 3 * h - 5 * d <= 1 /\ 5 * d - 3 * h <= 1

\* a session whose samples are a number of seconds apart that is no whole
\* number of hundredths of a minute, next to a sample that does not parse
C6_Witness ==
  \E i \in 1..Len(session_summary.rows) :
    LET r == session_summary.rows[i]
    IN /\ r.start # NaT /\ r.start < r.end
       /\ 60 * r.duration_min # 100 * (r.end - r.start)

C4_WitnessFailure ==
  /\ call.table # Null /\ call.query_failed /\ db_up
  /\ tables[call.table].exists /\ "timestamp" \in tables[call.table].cols

====
